---- MODULE Spec2Model ----
(***************************************************************************)
(* Edge statistics of xgi (src/xgi/stats/edgestats.py) and the centrality  *)
(* timing harness (src/centrality/test_single_centrality.py).              *)
(*                                                                         *)
(* Python values are represented as follows.  Attribute values and the     *)
(* `missing` argument are strings holding the value's repr ("None" is      *)
(* Python's None).  An argument whose type the code inspects (attr,        *)
(* degree) is a record [type, v].  A dict is a function; an attribute dict *)
(* is an object of the heap, named by a reference, because the code hands  *)
(* such objects out.                                                       *)
(***************************************************************************)
EXTENDS Integers, FiniteSets, Sequences, TLC

\* ---------------------------------------------------------------- bounds
MaxNodes == 2
MaxEdges == 2

Nodes == 1..MaxNodes

AttrNames == {"color", "age"}
\* The attribute dicts edges are created with (the doctest of attrs).
AttrDicts == { ("color" :> "red"), ("color" :> "black" @@ "age" :> "30") }
MissingValues == {"None", "100"}

StrAttr(x) == [type |-> "str", v |-> x]
NoneAttr == [type |-> "NoneType", v |-> "None"]
IntAttr == [type |-> "int", v |-> "7"]
AttrArgs == {NoneAttr, IntAttr} \cup {StrAttr(x) : x \in AttrNames}

NoneDegree == [type |-> "NoneType", v |-> 0]
IntDegree(d) == [type |-> "int", v |-> d]
DegreeArgs == {NoneDegree} \cup {IntDegree(d) : d \in 1..2}

MaxIterArgs == {100, 1000}
TolArgs == {"1e-6"}
AlphaArgs == {"0.9", "0.5"}

VARIABLES
    net,          \* the hypergraph: [_edge, _node, _edge_attr]
    heap,         \* the attribute dict objects: reference -> dict
    call,         \* the arguments of the statistic call whose result is held
    ret,          \* what that call produced: a mapping or an exception
    after,        \* what happened since: "", "again", "net" or "caller"
    pc,           \* harness: position in the script
    args,         \* harness: parsed command line
    centralities, \* harness: sum of the computed array, in units of 1e-4
    elapsed,      \* harness: time_end - time_start, in units of 1e-4 s
    runtime_txt,  \* harness: lines of runtime.txt
    prior,        \* harness: lines runtime.txt held when the run started
    files,        \* harness: array files written
    err           \* harness: the exception that ended the run

vars == <<net, heap, call, ret, after, pc, args, centralities, elapsed, runtime_txt,
          prior, files, err>>
libvars == <<net, heap, call, ret, after>>
harnessvars == <<pc, args, centralities, elapsed, runtime_txt, prior, files, err>>

\* ---------------------------------------------------------- the hypergraph
EmptyDict == <<>>

\* xgi.Hypergraph(): edge list -> hypergraph, edge i of the list getting id i-1
\* and its own attribute dict object (reference i-1).
Hypergraph(members, attr) ==
    LET ids == {i - 1 : i \in 1..Len(members)}
        ns == UNION {members[i] : i \in 1..Len(members)}
    IN [net |-> [_edge |-> [e \in ids |-> members[e + 1]],
                 _node |-> [n \in ns |-> {e \in ids : n \in members[e + 1]}],
                 _edge_attr |-> [e \in ids |-> e]],
        heap |-> [r \in ids |-> attr[r + 1]]]

\* The hypergraph of the module docstring and of the doctests of order and size.
ExampleEdges == <<{1, 2, 3}, {2, 3, 4, 5}, {3, 4, 5}>>
ExampleH == Hypergraph(ExampleEdges, <<EmptyDict, EmptyDict, EmptyDict>>)

NonEmptyEdges == SUBSET Nodes \ {{}}
NoAttrs(k) == [i \in 1..k |-> EmptyDict]
\* The members of the edges of the doctest of attrs: [0, 1], [1, 2], ...
DocMembers(k) == [i \in 1..k |-> {i - 1, i}]
\* The hypergraphs a caller holds: the docstring's example, every hypergraph of up
\* to MaxEdges edges over Nodes (no attributes), and the doctest's edges with
\* every choice of attribute dicts.
InitHypergraphs ==
    {ExampleH} \cup
    UNION { { Hypergraph(m, NoAttrs(k)) : m \in [1..k -> NonEmptyEdges] }
            \cup { Hypergraph(DocMembers(k), a) :
                      a \in [1..k -> AttrDicts \cup {EmptyDict}] }
            : k \in 0..MaxEdges }

Edges(H) == DOMAIN H._edge
\* An identifier that is the id of no edge of any hypergraph of the model.
NotAnEdge == Len(ExampleEdges) + MaxEdges
Bunches(H) == SUBSET (Edges(H) \cup {NotAnEdge})

\* ------------------------------------------------------------- results
NoCall == [fn |-> "none"]
Call(fn, bunch, attr, missing, degree, alpha, max_iter, tol) ==
    [fn |-> fn, bunch |-> bunch, attr |-> attr, missing |-> missing,
     degree |-> degree, alpha |-> alpha, max_iter |-> max_iter, tol |-> tol]
NoRet == [kind |-> "none", refs |-> FALSE, value |-> <<>>, exc |-> "", arg |-> ""]
\* A returned dict.  refs: its values are references to heap objects.
Dict(value, refs) ==
    [kind |-> "dict", refs |-> refs, value |-> value, exc |-> "", arg |-> ""]
Raise(exc, arg) ==
    [kind |-> "raise", refs |-> FALSE, value |-> <<>>, exc |-> exc, arg |-> arg]
\* d[k] for k in bunch with a k that d lacks: KeyError(k).
KeyError(bunch, keys) == Raise("KeyError", ToString(CHOOSE k \in bunch \ keys : TRUE))

\* dict.get(key, default)
Get(d, key, default) == IF key \in DOMAIN d THEN d[key] ELSE default

\* ------------------------------------------------- the hypergraph engine
\* The centrality routines of the xgi package (xgi.degree_centrality, ...).
\* The value a routine gives an edge is kept as the term naming the routine,
\* the target, the arguments it was invoked with, the hypergraph and the edge:
\* two values are equal exactly when the same computation produced them.
XgiArgs(fns, alpha, max_iter, tol) ==
    [fns |-> fns, alpha |-> alpha, max_iter |-> max_iter, tol |-> tol]
NoArgs == XgiArgs("", "", 0, "")
XgiCentrality(routine, H, target, a) ==
    [e \in Edges(H) |->
        [routine |-> routine, target |-> target, a |-> a, H |-> H._edge, e |-> e]]
\* xgi.node_edge_centrality returns the pair (node centralities, edge centralities).
XgiNodeEdgeCentrality(H, f, g, phi, psi, max_iter, tol) ==
    LET a == XgiArgs(f \o "," \o g \o "," \o phi \o "," \o psi, "", max_iter, tol)
    IN <<[n \in DOMAIN H._node |->
            [routine |-> "node_edge_centrality", target |-> "node", a |-> a,
             H |-> H._edge, e |-> n]],
         XgiCentrality("node_edge_centrality", H, "edge", a)>>

\* ------------------------------------------------------ the statistics
\* Mutant: the comprehension runs over bunch, {e: c[e] for e in bunch}.
FilterBunch_over_bunch(c, bunch) ==
    IF bunch \subseteq DOMAIN c
    THEN Dict([e \in bunch |-> c[e]], FALSE)
    ELSE KeyError(bunch, DOMAIN c)

\* {e: c[e] for e in c if e in bunch}
FilterBunch(c, bunch) == Dict([e \in {k \in DOMAIN c : k \in bunch} |-> c[e]], FALSE)

\* Mutant: .get(attr), the imputed value dropped.
attrs_get_without_missing(H, hp, bunch, attr, missing) ==
    IF attr.type = "str"
    THEN IF bunch \subseteq DOMAIN H._edge_attr
         THEN Dict([e \in bunch |-> Get(hp[H._edge_attr[e]], attr.v, "None")], FALSE)
         ELSE KeyError(bunch, DOMAIN H._edge_attr)
    ELSE IF attr.type = "NoneType"
    THEN IF bunch \subseteq DOMAIN H._edge_attr
         THEN Dict([e \in bunch |-> H._edge_attr[e]], TRUE)
         ELSE KeyError(bunch, DOMAIN H._edge_attr)
    ELSE Raise("ValueError", "\"attr\" must be str or None")

\* Mutant: no type check, every attr that is not None is used as a key.
attrs_without_type_check(H, hp, bunch, attr, missing) ==
    IF attr.type = "NoneType"
    THEN IF bunch \subseteq DOMAIN H._edge_attr
         THEN Dict([e \in bunch |-> H._edge_attr[e]], TRUE)
         ELSE KeyError(bunch, DOMAIN H._edge_attr)
    ELSE IF bunch \subseteq DOMAIN H._edge_attr
         THEN Dict([e \in bunch |-> Get(hp[H._edge_attr[e]], attr.v, missing)], FALSE)
         ELSE KeyError(bunch, DOMAIN H._edge_attr)

\* attrs(net, bunch, attr=None, missing=None): what the call produces.
attrs(H, hp, bunch, attr, missing) ==
    IF attr.type = "str"
    THEN IF bunch \subseteq DOMAIN H._edge_attr
         THEN Dict([e \in bunch |-> Get(hp[H._edge_attr[e]], attr.v, missing)], FALSE)
         ELSE KeyError(bunch, DOMAIN H._edge_attr)
    ELSE IF attr.type = "NoneType"
    THEN IF bunch \subseteq DOMAIN H._edge_attr
         THEN Dict([e \in bunch |-> H._edge_attr[e]], TRUE)
         ELSE KeyError(bunch, DOMAIN H._edge_attr)
    ELSE Raise("ValueError", "\"attr\" must be str or None")

\* Mutant: .setdefault(attr, missing) in place of .get(attr, missing).
attrs_heap_setdefault(H, hp, bunch, attr, missing) ==
    IF attr.type = "str" /\ bunch \subseteq DOMAIN H._edge_attr
    THEN [r \in DOMAIN hp |->
            IF (\E e \in bunch : H._edge_attr[e] = r) /\ attr.v \notin DOMAIN hp[r]
            THEN (attr.v :> missing) @@ hp[r]
            ELSE hp[r]]
    ELSE hp

\* The attribute dict objects after attrs returned or raised: it assigns to none.
attrs_heap(H, hp, bunch, attr, missing) == hp

\* Mutant: >= in place of ==.
CountDegree_at_least(H, e, degree) ==
    Cardinality({n \in H._edge[e] : Cardinality(H._node[n]) >= degree})

\* sum(len(net._node[n]) == degree for n in net._edge[e])
CountDegree(H, e, degree) ==
    Cardinality({n \in H._edge[e] : Cardinality(H._node[n]) = degree})

\* Mutant: the - 1 of the unfiltered branch dropped.
order_without_minus_one(H, bunch, degree) ==
    IF ~(bunch \subseteq DOMAIN H._edge) THEN KeyError(bunch, DOMAIN H._edge)
    ELSE IF degree.type = "NoneType"
    THEN Dict([e \in bunch |-> Cardinality(H._edge[e])], FALSE)
    ELSE Dict([e \in bunch |-> CountDegree(H, e, degree.v) - 1], FALSE)

\* order(net, bunch, degree=None)
order(H, bunch, degree) ==
    IF ~(bunch \subseteq DOMAIN H._edge) THEN KeyError(bunch, DOMAIN H._edge)
    ELSE IF degree.type = "NoneType"
    THEN Dict([e \in bunch |-> Cardinality(H._edge[e]) - 1], FALSE)
    ELSE Dict([e \in bunch |-> CountDegree(H, e, degree.v) - 1], FALSE)

\* size(net, bunch, degree=None)
size(H, bunch, degree) ==
    IF ~(bunch \subseteq DOMAIN H._edge) THEN KeyError(bunch, DOMAIN H._edge)
    ELSE IF degree.type = "NoneType"
    THEN Dict([e \in bunch |-> Cardinality(H._edge[e])], FALSE)
    ELSE Dict([e \in bunch |-> CountDegree(H, e, degree.v)], FALSE)

node_edge_centrality(H, bunch, f, g, phi, psi, max_iter, tol) ==
    LET c == XgiNodeEdgeCentrality(H, f, g, phi, psi, max_iter, tol)[2]
    IN FilterBunch(c, bunch)

degree_centrality(H, bunch) ==
    FilterBunch(XgiCentrality("degree_centrality", H, "edge", NoArgs), bunch)

line_expansion_degree_centrality(H, bunch) ==
    FilterBunch(XgiCentrality("line_expansion_degree_centrality", H, "", NoArgs), bunch)

closeness_centrality(H, bunch) ==
    FilterBunch(XgiCentrality("closeness_centrality", H, "edge", NoArgs), bunch)

betweenness_centrality(H, bunch) ==
    FilterBunch(XgiCentrality("betweenness_centrality", H, "edge", NoArgs), bunch)

harmonic_centrality(H, bunch) ==
    FilterBunch(XgiCentrality("harmonic_centrality", H, "edge", NoArgs), bunch)

eigenvector_centrality(H, bunch, max_iter, tol) ==
    FilterBunch(XgiCentrality("eigenvector_centrality", H, "edge",
                              XgiArgs("", "", max_iter, tol)), bunch)

\* Mutant: the PageRank routine is invoked, with alpha.
pagerank_centrality_by_pagerank(H, bunch, alpha, max_iter, tol) ==
    FilterBunch(XgiCentrality("pagerank_centrality", H, "edge",
                              XgiArgs("", alpha, max_iter, tol)), bunch)

pagerank_centrality(H, bunch, alpha, max_iter, tol) ==
    FilterBunch(XgiCentrality("eigenvector_centrality", H, "edge",
                              XgiArgs("", "", max_iter, tol)), bunch)

hypercoreness(H, bunch) ==
    FilterBunch(XgiCentrality("hypercoreness", H, "edge", NoArgs), bunch)

\* The default lambdas of node_edge_centrality.
DefaultF == "x^2"
DefaultG == "x^0.5"

PlainWrappers == {"degree_centrality", "line_expansion_degree_centrality",
                  "closeness_centrality", "betweenness_centrality",
                  "harmonic_centrality", "hypercoreness"}
Wrappers == PlainWrappers \cup
            {"node_edge_centrality", "eigenvector_centrality", "pagerank_centrality"}

\* The statistic named by c.fn applied to c's arguments: __all__.
Stat(c, H, hp) ==
    CASE c.fn = "attrs" -> attrs(H, hp, c.bunch, c.attr, c.missing)
      [] c.fn = "order" -> order(H, c.bunch, c.degree)
      [] c.fn = "size" -> size(H, c.bunch, c.degree)
      [] c.fn = "node_edge_centrality" ->
            node_edge_centrality(H, c.bunch, DefaultF, DefaultG, DefaultF, DefaultG,
                                 c.max_iter, c.tol)
      [] c.fn = "degree_centrality" -> degree_centrality(H, c.bunch)
      [] c.fn = "line_expansion_degree_centrality" ->
            line_expansion_degree_centrality(H, c.bunch)
      [] c.fn = "closeness_centrality" -> closeness_centrality(H, c.bunch)
      [] c.fn = "betweenness_centrality" -> betweenness_centrality(H, c.bunch)
      [] c.fn = "harmonic_centrality" -> harmonic_centrality(H, c.bunch)
      [] c.fn = "eigenvector_centrality" ->
            eigenvector_centrality(H, c.bunch, c.max_iter, c.tol)
      [] c.fn = "pagerank_centrality" ->
            pagerank_centrality(H, c.bunch, c.alpha, c.max_iter, c.tol)
      [] c.fn = "hypercoreness" -> hypercoreness(H, c.bunch)

\* The attribute dict objects after the call c.
StatHeap(c, H, hp) ==
    IF c.fn = "attrs" THEN attrs_heap(H, hp, c.bunch, c.attr, c.missing) ELSE hp

\* --------------------------------------------------------------- calls
\* The harness is not running.
HarnessIdle ==
    /\ pc = "off"
    /\ args = [dataset |-> "", measure |-> "", edge |-> FALSE]
    /\ centralities = [computed |-> FALSE, sum |-> 0]
    /\ elapsed = 0
    /\ runtime_txt = <<>>
    /\ prior = <<>>
    /\ files = EmptyDict
    /\ err = [type |-> "", args |-> <<>>]

\* A caller holds a hypergraph and no result yet.
Init ==
    /\ \E h \in InitHypergraphs : net = h.net /\ heap = h.heap
    /\ call = NoCall
    /\ ret = NoRet
    /\ after = ""
    /\ HarnessIdle

\* The caller holds the result of a call.
Held == call # NoCall

\* A caller invokes the statistic c and keeps what it produced.
Invoke(c) ==
    /\ call = NoCall
    /\ call' = c
    /\ ret' = Stat(c, net, heap)
    /\ heap' = StatHeap(c, net, heap)
    /\ UNCHANGED <<net, after>>
    /\ UNCHANGED harnessvars

CallAttrs ==
    \E bunch \in Bunches(net), attr \in AttrArgs, missing \in MissingValues :
        Invoke(Call("attrs", bunch, attr, missing, NoneDegree, "", 0, ""))

CallOrder ==
    \E bunch \in Bunches(net), degree \in DegreeArgs :
        Invoke(Call("order", bunch, NoneAttr, "None", degree, "", 0, ""))

CallSize ==
    \E bunch \in Bunches(net), degree \in DegreeArgs :
        Invoke(Call("size", bunch, NoneAttr, "None", degree, "", 0, ""))

CallNodeEdgeCentrality ==
    \E bunch \in Bunches(net), max_iter \in MaxIterArgs, tol \in TolArgs :
        Invoke(Call("node_edge_centrality", bunch, NoneAttr, "None", NoneDegree,
                    "", max_iter, tol))

CallPlainCentrality ==
    \E fn \in PlainWrappers, bunch \in Bunches(net) :
        Invoke(Call(fn, bunch, NoneAttr, "None", NoneDegree, "", 0, ""))

CallEigenvectorCentrality ==
    \E bunch \in Bunches(net), max_iter \in MaxIterArgs, tol \in TolArgs :
        Invoke(Call("eigenvector_centrality", bunch, NoneAttr, "None", NoneDegree,
                    "", max_iter, tol))

CallPagerankCentrality ==
    \E bunch \in Bunches(net), alpha \in AlphaArgs, max_iter \in MaxIterArgs,
       tol \in TolArgs :
        Invoke(Call("pagerank_centrality", bunch, NoneAttr, "None", NoneDegree,
                    alpha, max_iter, tol))

\* The caller makes the identical call a second time.
CallAgain ==
    /\ call # NoCall
    /\ after = ""
    /\ ret' = Stat(call, net, heap)
    /\ heap' = StatHeap(call, net, heap)
    /\ after' = "again"
    /\ UNCHANGED <<net, call>>
    /\ UNCHANGED harnessvars

Calls ==
    \/ CallAttrs
    \/ CallOrder
    \/ CallSize
    \/ CallNodeEdgeCentrality
    \/ CallPlainCentrality
    \/ CallEigenvectorCentrality
    \/ CallPagerankCentrality

Next ==
    \/ Calls
    \/ CallAgain

Spec == Init /\ [][Next]_vars

\* --------------------------------------- changes after a mapping returned
\* Hypergraph.set_edge_attributes: net._edge_attr[e][name] = value, in place.
SetEdgeAttr ==
    /\ Held
    /\ after = ""
    /\ \E e \in Edges(net), name \in AttrNames, value \in {"blue", "40"} :
          heap' = [heap EXCEPT ![net._edge_attr[e]] = (name :> value) @@ @]
    /\ after' = "net"
    /\ UNCHANGED <<net, call, ret>>
    /\ UNCHANGED harnessvars

\* Hypergraph.remove_edge(id)
RemoveEdge ==
    /\ Held
    /\ after = ""
    /\ \E id \in Edges(net) :
          net' = [_edge |-> [e \in Edges(net) \ {id} |-> net._edge[e]],
                  _node |-> [n \in DOMAIN net._node |-> net._node[n] \ {id}],
                  _edge_attr |-> [e \in Edges(net) \ {id} |-> net._edge_attr[e]]]
    /\ after' = "net"
    /\ UNCHANGED <<heap, call, ret>>
    /\ UNCHANGED harnessvars

\* Hypergraph.add_edge(members, **attr): the next unused id, a new attribute dict.
AddEdge ==
    /\ Held
    /\ after = ""
    /\ Cardinality(Edges(net)) < MaxEdges
    /\ \E members \in NonEmptyEdges, attr \in AttrDicts \cup {EmptyDict} :
          LET id == Cardinality(DOMAIN heap)
          IN /\ net' = [_edge |-> (id :> members) @@ net._edge,
                        _node |-> [n \in DOMAIN net._node \cup members |->
                                      (IF n \in DOMAIN net._node
                                       THEN net._node[n] ELSE {})
                                      \cup (IF n \in members THEN {id} ELSE {})],
                        _edge_attr |-> (id :> id) @@ net._edge_attr]
             /\ heap' = (id :> attr) @@ heap
    /\ after' = "net"
    /\ UNCHANGED <<call, ret>>
    /\ UNCHANGED harnessvars

\* The caller assigns into a value of the returned mapping: m[e][name] = value.
CallerSetItem ==
    /\ ret.kind = "dict"
    /\ ret.refs
    /\ after = ""
    /\ \E e \in DOMAIN ret.value, name \in AttrNames, value \in {"blue", "40"} :
          heap' = [heap EXCEPT ![ret.value[e]] = (name :> value) @@ @]
    /\ after' = "caller"
    /\ UNCHANGED <<net, call, ret>>
    /\ UNCHANGED harnessvars

\* The caller removes a key of the returned mapping: del m[e].
CallerDelItem ==
    /\ ret.kind = "dict"
    /\ after = ""
    /\ \E e \in DOMAIN ret.value :
          ret' = [ret EXCEPT !.value = [k \in DOMAIN ret.value \ {e} |-> ret.value[k]]]
    /\ after' = "caller"
    /\ UNCHANGED <<net, heap, call>>
    /\ UNCHANGED harnessvars

NextSnapshot ==
    \/ Calls
    \/ SetEdgeAttr
    \/ RemoveEdge
    \/ AddEdge
    \/ CallerSetItem
    \/ CallerDelItem

SpecSnapshot == Init /\ [][NextSnapshot]_vars

\* ----------------------------------------------------------- the harness
\* Sums and the tolerance are in units of 1e-4.
tolerance == 10
One == 10000

NodeMeasures == {"degree", "neighbor_degree", "closeness", "betweenness", "harmonic",
                 "eigenvector", "pagerank", "uplift_eigenvector"}
EdgeMeasures == {"degree", "closeness", "betweenness", "harmonic", "eigenvector",
                 "pagerank"}
Datasets == {"email-enron", "diseasome"}
MeasureArgs == NodeMeasures \cup {"foo"}
\* The sums the engine's arrays may have, around both ends of the tolerance.
Sums == {One + d : d \in {0 - tolerance - 1, 0 - tolerance, 1 - tolerance, 0,
                          tolerance - 1, tolerance, tolerance + 1}}
\* time_end - time_start, in units of 1e-4 s.
ElapsedArgs == {5, 12345}

NotComputed == [computed |-> FALSE, sum |-> 0]
NoError == [type |-> "", args |-> <<>>]
XGIError(msg, measure) == [type |-> "XGIError", args |-> <<msg, measure>>]
AssertionError == [type |-> "AssertionError", args |-> <<>>]

\* Mutant: the node branch's chain of names used in both modes.
Supported_node_chain(edge, measure) == measure \in NodeMeasures

\* The if/elif chain of the selected branch has an arm for the measure.
Supported(edge, measure) ==
    IF ~edge THEN measure \in NodeMeasures ELSE measure \in EdgeMeasures

\* Mutant: the lower assertion left out.
AssertLower_dropped(sum) == TRUE

\* assert np.sum(centralities) < 1 + tolerance
AssertUpper(sum) == sum < One + tolerance
\* assert np.sum(centralities) > 1 - tolerance
AssertLower(sum) == sum > One - tolerance

\* measure_name
MeasureName(a) == IF a.edge THEN "edge_" \o a.measure ELSE "node_" \o a.measure

\* The four decimals of n / 10^4, n < 10^4.
Decimals4(n) ==
    ToString(n \div 1000) \o ToString((n \div 100) % 10)
        \o ToString((n \div 10) % 10) \o ToString(n % 10)
\* f"{time_end - time_start:.4f}"
Format4f(t) == ToString(t \div One) \o "." \o Decimals4(t % One)
\* f"{args.dataset} {measure_name} {time_end - time_start:.4f}s\n"
Line(a, t) == a.dataset \o " " \o MeasureName(a) \o " " \o Format4f(t) \o "s"
\* f"values/{args.dataset}/{measure_name}.npy"
Path(a) == "values/" \o a.dataset \o "/" \o MeasureName(a) \o ".npy"

OldLine == "diseasome node_degree 0.0421s"

InitHarness ==
    /\ net = Hypergraph(<<>>, <<>>).net
    /\ heap = Hypergraph(<<>>, <<>>).heap
    /\ call = NoCall
    /\ ret = NoRet
    /\ after = ""
    /\ pc = "start"
    /\ args \in [dataset : Datasets, measure : MeasureArgs, edge : BOOLEAN]
    /\ centralities = NotComputed
    /\ elapsed = 0
    /\ runtime_txt \in {<<>>, <<OldLine>>}
    /\ prior = runtime_txt
    /\ files = EmptyDict
    /\ err = NoError

\* xgi.load_xgi_data(args.dataset, read=True, path="datasets")
Load ==
    /\ pc = "start"
    /\ pc' = "loaded"
    /\ UNCHANGED <<args, centralities, elapsed, runtime_txt, prior, files, err>>
    /\ UNCHANGED libvars

\* The arm of the measure: the statistic is computed and timed.
Compute ==
    /\ pc = "loaded"
    /\ Supported(args.edge, args.measure)
    /\ \E sum \in Sums : centralities' = [computed |-> TRUE, sum |-> sum]
    /\ elapsed' \in ElapsedArgs
    /\ pc' = "computed"
    /\ UNCHANGED <<args, runtime_txt, prior, files, err>>
    /\ UNCHANGED libvars

\* The else arm: raise XGIError(...).
RaiseInvalid ==
    /\ pc = "loaded"
    /\ ~Supported(args.edge, args.measure)
    /\ err' = XGIError(IF args.edge THEN "Invalid centrality measure for edge: "
                       ELSE "Invalid centrality measure for node: ", args.measure)
    /\ pc' = "raised"
    /\ UNCHANGED <<args, centralities, elapsed, runtime_txt, prior, files>>
    /\ UNCHANGED libvars

CheckUpper ==
    /\ pc = "computed"
    /\ IF AssertUpper(centralities.sum)
       THEN pc' = "upper_ok" /\ err' = err
       ELSE pc' = "raised" /\ err' = AssertionError
    /\ UNCHANGED <<args, centralities, elapsed, runtime_txt, prior, files>>
    /\ UNCHANGED libvars

CheckLower ==
    /\ pc = "upper_ok"
    /\ IF AssertLower(centralities.sum)
       THEN pc' = "checked" /\ err' = err
       ELSE pc' = "raised" /\ err' = AssertionError
    /\ UNCHANGED <<args, centralities, elapsed, runtime_txt, prior, files>>
    /\ UNCHANGED libvars

\* with open("runtime.txt", "a+") as f: f.write(...)
AppendRuntime ==
    /\ pc = "checked"
    /\ runtime_txt' = Append(runtime_txt, Line(args, elapsed))
    /\ pc' = "logged"
    /\ UNCHANGED <<args, centralities, elapsed, prior, files, err>>
    /\ UNCHANGED libvars

\* os.makedirs(...); np.save(path, centralities)
SaveArray ==
    /\ pc = "logged"
    /\ files' = (Path(args) :> centralities.sum) @@ files
    /\ pc' = "done"
    /\ UNCHANGED <<args, centralities, elapsed, runtime_txt, prior, err>>
    /\ UNCHANGED libvars

NextHarness ==
    \/ Load
    \/ Compute
    \/ RaiseInvalid
    \/ CheckUpper
    \/ CheckLower
    \/ AppendRuntime
    \/ SaveArray

SpecHarness == InitHarness /\ [][NextHarness]_vars

\* ------------------------------------------------------------ properties
\* The statistic of the held call computed over the whole hypergraph.
Full == Stat([call EXCEPT !.bunch = Edges(net)], net, heap)
\* ret is Full restricted to the bunch: the keys of both, with Full's values.
IsFiltered ==
    /\ ret.kind = "dict"
    /\ DOMAIN ret.value = call.bunch \cap DOMAIN Full.value
    /\ \A e \in DOMAIN ret.value : ret.value[e] = Full.value[e]
Direct == {"attrs", "order", "size"}

\* C1 as stated: whenever the statistic over the whole hypergraph is a mapping,
\* the call on any bunch of identifiers returns that mapping restricted to the
\* bunch.
C1_FilterAnyBunch == Held /\ Full.kind = "dict" => IsFiltered

\* C1 as amended: the centrality wrappers return the full mapping restricted to
\* the bunch for every bunch of identifiers; attrs (attr a string or None), order
\* and size do so for every bunch of edges of the hypergraph, and raise KeyError,
\* returning no mapping, when the bunch holds an identifier that is no edge.
C1_FilterBunchOfEdges ==
    Held =>
        /\ call.fn \in Wrappers => Full.kind = "dict" /\ IsFiltered
        /\ call.fn \in Direct /\ Full.kind = "dict" =>
              IF call.bunch \subseteq Edges(net)
              THEN IsFiltered
              ELSE ret.kind = "raise" /\ ret.exc = "KeyError"

C1_Witness ==
    /\ Held
    /\ call.fn \in Wrappers
    /\ NotAnEdge \in call.bunch
    /\ call.bunch \cap Edges(net) # {}
    /\ Edges(net) \ call.bunch # {}
    /\ ret.kind = "dict"
    /\ DOMAIN ret.value = call.bunch \cap Edges(net)

IsExample == net = ExampleH.net
ExampleBunch == {0, 1, 2}

\* C2: with degree=None and a bunch of edges, size gives each edge its number of
\* member nodes and order gives size - 1; on the docstring's hypergraph
\* order = {0:2, 1:3, 2:2} and size = {0:3, 1:4, 2:3}.
C2_OrderIsSizeMinusOne ==
    Held /\ call.fn \in {"order", "size"} /\ call.degree = NoneDegree
         /\ call.bunch \subseteq Edges(net) =>
        /\ ret.kind = "dict"
        /\ DOMAIN ret.value = call.bunch
        /\ call.fn = "size" =>
              /\ \A e \in call.bunch : ret.value[e] = Cardinality(net._edge[e])
              /\ IsExample /\ call.bunch = ExampleBunch =>
                    ret.value = (0 :> 3 @@ 1 :> 4 @@ 2 :> 3)
        /\ call.fn = "order" =>
              /\ \A e \in call.bunch :
                    ret.value[e] = size(net, call.bunch, NoneDegree).value[e] - 1
              /\ IsExample /\ call.bunch = ExampleBunch =>
                    ret.value = (0 :> 2 @@ 1 :> 3 @@ 2 :> 2)

C2_Witness ==
    /\ IsExample
    /\ call = Call("order", ExampleBunch, NoneAttr, "None", NoneDegree, "", 0, "")
    /\ ret.kind = "dict"
    /\ ret.value[1] = 3

\* The degree of a node: the number of edges that contain it.
NodeDegree(n) == Cardinality({f \in Edges(net) : n \in net._edge[f]})
MembersOfDegree(e, d) == Cardinality({n \in net._edge[e] : NodeDegree(n) = d})

\* C3: with a degree filter d and a bunch of edges, size gives each edge the
\* number of its member nodes of degree d and order gives that count minus 1
\* (-1 for an edge with no such member); on the docstring's hypergraph
\* order(degree=2) = {0:0, 1:2, 2:1}.
C3_DegreeFilter ==
    Held /\ call.fn \in {"order", "size"} /\ call.degree.type = "int"
         /\ call.bunch \subseteq Edges(net) =>
        /\ ret.kind = "dict"
        /\ DOMAIN ret.value = call.bunch
        /\ \A e \in call.bunch :
              /\ call.fn = "size" => ret.value[e] = MembersOfDegree(e, call.degree.v)
              /\ call.fn = "order" =>
                    /\ ret.value[e] = MembersOfDegree(e, call.degree.v) - 1
                    /\ MembersOfDegree(e, call.degree.v) = 0 => ret.value[e] = -1
        /\ IsExample /\ call.fn = "order" /\ call.bunch = ExampleBunch
                     /\ call.degree = IntDegree(2) =>
              ret.value = (0 :> 0 @@ 1 :> 2 @@ 2 :> 1)

C3_Witness ==
    /\ IsExample
    /\ call = Call("order", ExampleBunch, NoneAttr, "None", IntDegree(2), "", 0, "")
    /\ ret.kind = "dict"
    /\ ret.value[0] = 0
    /\ ret.value[1] = 2

\* The attribute record of edge e.
Record(e) == heap[net._edge_attr[e]]

\* C4: attrs with a string attr x, any missing M and a bunch of edges returns one
\* key per edge of the bunch, holding M where the edge's record has no x and the
\* stored value otherwise; it does not raise.
C4_AttrOrMissing ==
    Held /\ call.fn = "attrs" /\ call.attr.type = "str"
         /\ call.bunch \subseteq Edges(net) =>
        /\ ret.kind = "dict"
        /\ DOMAIN ret.value = call.bunch
        /\ \A e \in call.bunch :
              ret.value[e] = IF call.attr.v \in DOMAIN Record(e)
                             THEN Record(e)[call.attr.v]
                             ELSE call.missing

C4_Witness ==
    /\ Held
    /\ call.fn = "attrs"
    /\ call.attr = StrAttr("age")
    /\ call.missing = "100"
    /\ ret.kind = "dict"
    /\ \E e, f \in call.bunch :
          /\ "age" \notin DOMAIN Record(e)
          /\ ret.value[e] = "100"
          /\ "age" \in DOMAIN Record(f)
          /\ ret.value[f] = "30"

\* C5: attrs raises ValueError, whatever the bunch, exactly when attr is neither
\* a string nor None; with attr=None and a bunch of edges it returns each edge's
\* whole attribute record, whatever missing is.
C5_AttrTypeError ==
    Held /\ call.fn = "attrs" =>
        /\ call.attr.type \notin {"str", "NoneType"} =>
              ret.kind = "raise" /\ ret.exc = "ValueError"
        /\ call.attr.type \in {"str", "NoneType"} => ret.exc # "ValueError"
        /\ call.attr.type = "NoneType" /\ call.bunch \subseteq Edges(net) =>
              /\ ret.kind = "dict"
              /\ ret.refs
              /\ DOMAIN ret.value = call.bunch
              /\ \A e \in call.bunch : heap[ret.value[e]] = Record(e)

C5_Witness ==
    /\ Held
    /\ call.fn = "attrs"
    /\ call.attr = IntAttr
    /\ call.bunch = {}
    /\ ret.kind = "raise"
    /\ ret.exc = "ValueError"

\* C6: a statistic call, returning or raising, leaves the hypergraph (node set,
\* edge set, memberships, attribute records) as it was, and the identical call
\* made again produces an equal result.
C6_CallsDoNotMutate ==
    [][call' # NoCall =>
          /\ net' = net
          /\ heap' = heap
          /\ (Held /\ call' = call => ret' = ret)]_vars

C6_Witness ==
    /\ after = "again"
    /\ call.fn = "attrs"
    /\ call.attr = StrAttr("age")
    /\ \E e \in call.bunch : e \in Edges(net) /\ "age" \notin DOMAIN Record(e)

RetView ==
    IF ret.refs THEN [e \in DOMAIN ret.value |-> heap[ret.value[e]]] ELSE ret.value
\* The hypergraph, with the attribute record of every edge.
NetView == [net |-> net, records |-> [e \in Edges(net) |-> Record(e)]]

\* C7: a returned mapping shares no mutable state with the hypergraph: a change
\* of the hypergraph leaves the mapping and the values inside it as they were,
\* and a change made by the caller to the mapping or to a value inside it leaves
\* the hypergraph as it was.
C7_Snapshot ==
    [][/\ (after = "" /\ after' = "net" => RetView' = RetView)
       /\ (after = "" /\ after' = "caller" => NetView' = NetView)]_vars

AcceptedNode == {"degree", "neighbor_degree", "closeness", "betweenness", "harmonic",
                 "eigenvector", "pagerank", "uplift_eigenvector"}
AcceptedEdge == {"degree", "closeness", "betweenness", "harmonic", "eigenvector",
                 "pagerank"}
Accepted == IF args.edge THEN AcceptedEdge ELSE AcceptedNode

\* C8: a measure outside the set accepted for the mode raises XGIError naming the
\* measure, which ends the run with no centrality computed, no line appended to
\* runtime.txt and no array file written; an accepted measure never raises it.
C8_InvalidMeasure ==
    /\ args.measure \notin Accepted /\ pc \notin {"start", "loaded"} =>
          /\ pc = "raised"
          /\ err.type = "XGIError"
          /\ err.args[2] = args.measure
          /\ centralities = NotComputed
          /\ runtime_txt = prior
          /\ files = EmptyDict
          /\ ~ENABLED NextHarness
    /\ args.measure \in Accepted => err.type # "XGIError"

C8_Witness ==
    /\ pc = "raised"
    /\ args.edge
    /\ args.measure = "neighbor_degree"
    /\ err = XGIError("Invalid centrality measure for edge: ", "neighbor_degree")

WithinTolerance(sum) == sum - One <= tolerance /\ One - sum <= tolerance
Prefix == IF args.edge THEN "edge_" ELSE "node_"

\* C9: the line `<dataset> <node|edge>_<measure> <seconds>s` is appended and the
\* array file written only after the measure was computed and its sum found
\* within 1e-3 of 1, the line before the file, with the prefix edge_ exactly when
\* --edge was given; a sum outside the tolerance ends the run with an assertion
\* failure, no line appended and no file written.
C9_CheckThenLogThenSave ==
    /\ runtime_txt # prior =>
          /\ pc \in {"logged", "done"}
          /\ centralities.computed
          /\ WithinTolerance(centralities.sum)
          /\ runtime_txt = Append(prior, args.dataset \o " " \o Prefix \o args.measure
                                         \o " " \o Format4f(elapsed) \o "s")
    /\ files # EmptyDict =>
          /\ pc = "done"
          /\ runtime_txt # prior
          /\ DOMAIN files = {"values/" \o args.dataset \o "/" \o Prefix
                             \o args.measure \o ".npy"}
    /\ pc = "done" => runtime_txt # prior /\ files # EmptyDict
    /\ centralities.computed /\ ~WithinTolerance(centralities.sum)
          /\ pc \notin {"computed", "upper_ok"} =>
          /\ pc = "raised"
          /\ err = AssertionError
          /\ runtime_txt = prior
          /\ files = EmptyDict
          /\ ~ENABLED NextHarness

C9_Witness ==
    /\ pc = "done"
    /\ args.edge
    /\ args.dataset = "email-enron"
    /\ args.measure = "pagerank"
    /\ prior = <<OldLine>>
    /\ runtime_txt = <<OldLine, "email-enron edge_pagerank 1.2345s">>
    /\ DOMAIN files = {"values/email-enron/edge_pagerank.npy"}

====
